---------------------------- MODULE Spec2Model ----------------------------
(***************************************************************************)
(* The two AnkiConnect updaters of the repository:                         *)
(*   unlock_audio_cards            (src/EnableAudioOnFlashcards.py)        *)
(*   disable_border_maps_on_cards  (src/DisableBorderMapOnFlashcards.py)   *)
(* Both are the same find -> filter -> update pipeline over a remote note  *)
(* store, run with a different configuration.  The remote store is the     *)
(* environment: it answers each call, or the call fails.  A failed call    *)
(* leaves the store as it was.  The store changes only through the run's   *)
(* own updateNoteFields calls (no external edits between or during runs).  *)
(***************************************************************************)
EXTENDS Integers, Sequences, FiniteSets, TLC

VARIABLES
    cfg,                 \* which script runs: its literals (deck, model, ...)
    modelKnown,          \* remote: the configured model exists
    remoteTemplates,     \* remote: the model's template names, in ord order
    remoteNotes,         \* remote: note id -> note
    run,                 \* number of the current run of the script
    pc,                  \* position of the run in the pipeline
    template_names,      \* local: list(templates_dict.keys())
    word_template_ord,   \* local: template_names.index(<template>)
    note_ids,            \* local: result of find_notes
    notes,               \* local: notes of the configured model
    card_infos,          \* local: result of get_card_info
    eligible_card_ids,   \* local: the eligible card ids, in dict order
    note_ids_to_update,  \* local: ids handed to update_note_fields
    done_updates,        \* local: position of the update loop (pbar.n)
    calls,               \* history: the remote calls issued by this run
    raised,              \* the exception that ended the run, or "none"
    outcome,             \* how the run ended: the last log record's kind
    storeAtStart,        \* history: remoteNotes when this run started
    prevOutcome          \* history: outcome of the previous run

vars == << cfg, modelKnown, remoteTemplates, remoteNotes, run, pc,
           template_names, word_template_ord, note_ids, notes, card_infos,
           eligible_card_ids, note_ids_to_update, done_updates, calls,
           raised, outcome, storeAtStart, prevOutcome >>

-----------------------------------------------------------------------------
(* Bounds of the model *)

MaxNotes == 2

MaxRuns == 2

NoteIds == 1 .. MaxNotes

-----------------------------------------------------------------------------
(* The literals of the two scripts *)

AudioThreshold == 14

BorderMapThreshold == 45

AudioCfg ==
    [ deck |-> "Polish", model |-> "Words", template |-> "Word",
      threshold |-> AudioThreshold, field |-> "Audio Enabled",
      value |-> "Yes" ]

BorderMapCfg ==
    [ deck |-> "Other", model |-> "Regions", template |-> "Neighbours",
      threshold |-> BorderMapThreshold, field |-> "No Border Map",
      value |-> "Yes" ]

Configs == { AudioCfg, BorderMapCfg }

-----------------------------------------------------------------------------
(* Sequence helpers (Python list operations) *)

Range(s) == { s[i] : i \in DOMAIN s }

RECURSIVE Concat(_)
Concat(ss) == IF ss = << >> THEN << >> ELSE Head(ss) \o Concat(Tail(ss))

\* the ascending sequence of a finite set of integers
RECURSIVE SortedSeq(_)
SortedSeq(S) ==
    IF S = {} THEN << >>
    ELSE LET m == CHOOSE x \in S : \A y \in S : x <= y
         IN  << m >> \o SortedSeq(S \ { m })

-----------------------------------------------------------------------------
(* The remote note store (AnkiConnect), as the scripts read and write it *)

\* A note generates one card per template; the card of note n at ord o.
CardId(n, o) == 10 * n + o

NoteOfCard(c) == c \div 10

OrdOfCard(c) == c % 10

\* the "cards" of note n: one per ord, ivl[o + 1] the interval of ord o
CardsOf(store, n) == [ i \in 1 .. Len(store[n].ivl) |-> CardId(n, i - 1) ]

\* modelTemplates: the model's templates, keyed by name, in ord order
RemoteModelTemplates == remoteTemplates

\* findNotes: the ids of the notes the query matches, ascending
RemoteFindNotes(store, params) ==
    SortedSeq({ n \in DOMAIN store : store[n].deck = params.query.deck })

\* notesInfo: one record per requested note
RemoteNotesInfo(store, params) ==
    LET Info(n) == [ noteId |-> n, modelName |-> store[n].modelName,
                     cards |-> CardsOf(store, n), fields |-> store[n].fields ]
    IN  [ i \in DOMAIN params.notes |-> Info(params.notes[i]) ]

\* cardsInfo: one record per requested card; "fields" are its note's fields
RemoteCardsInfo(store, params) ==
    LET Info(c) == [ cardId |-> c, note |-> NoteOfCard(c),
                     ord |-> OrdOfCard(c),
                     interval |-> store[NoteOfCard(c)].ivl[OrdOfCard(c) + 1],
                     fields |-> store[NoteOfCard(c)].fields ]
    IN  [ i \in DOMAIN params.cards |-> Info(params.cards[i]) ]

\* updateNoteFields: sets the named fields the note has; a name the note's
\* model does not define is ignored
RemoteUpdateNoteFields(store, params) ==
    [ store EXCEPT ![params.note.id].fields =
        [ f \in DOMAIN @ |-> IF f \in DOMAIN params.note.fields
                             THEN params.note.fields[f] ELSE @[f] ] ]

\* What can come back from a call: a result, no connection, a transport
\* failure, or an error reported by the remote.  An unknown model makes
\* modelTemplates report an error; it never returns a result.
ResponseKinds == { "ok", "unreachable", "transport", "apperror" }

Responses(action) ==
    IF action = "modelTemplates" /\ ~modelKnown
    THEN ResponseKinds \ { "ok" }
    ELSE ResponseKinds

-----------------------------------------------------------------------------
(* The API client *)

\* invoke that does not look at the "error" member of the response
InvokeWithoutErrorCheck(kind) ==
    CASE kind = "ok"          -> "none"
      [] kind = "apperror"    -> "none"
      [] kind = "unreachable" -> "ConnectionError"
      [] kind = "transport"   -> "RuntimeError"

\* invoke: the exception it raises for a response, "none" when it returns
Invoke(kind) ==
    CASE kind = "ok"          -> "none"
      [] kind = "apperror"    -> "RuntimeError"
      [] kind = "unreachable" -> "ConnectionError"
      [] kind = "transport"   -> "RuntimeError"

FindNotesParams(deck_name) == [ query |-> [ deck |-> deck_name ] ]

NotesInfoParams(ids) == [ notes |-> ids ]

CardsInfoParams(ids) == [ cards |-> ids ]

UpdateParams(note_id, field_name, new_value) ==
    [ note |-> [ id |-> note_id, fields |-> (field_name :> new_value) ] ]

-----------------------------------------------------------------------------
(* The pipeline's computations *)

\* the template guard left out
HasTemplateAlways(names, t) == TRUE

\* "<template>" in template_names
HasTemplate(names, t) == t \in Range(names)

\* template_names.index(t): the first position, -1 for ValueError
IndexOf(names, t) ==
    IF \E i \in DOMAIN names : names[i] = t
    THEN (CHOOSE i \in DOMAIN names :
             names[i] = t /\ \A j \in DOMAIN names : names[j] = t => i <= j) - 1
    ELSE -1

\* the empty-deck guard left out
NoNoteIdsNever(ids) == FALSE

\* "if not note_ids": the deck query found nothing
NoNoteIds(ids) == ids = << >>

\* the guard after the model filter left out
NoNotesNever(ns) == FALSE

\* "if not notes": no note of the model is left
NoNotes(ns) == ns = << >>

\* the else branch of "if notes_to_update"
NoNotesToUpdate(ids) == ids = << >>

\* the model filter left out
FilterByModelKeepsAll(ns, model) == ns

\* [note for note in notes if note["modelName"] == model]
FilterByModel(ns, model) ==
    LET Test(n) == n.modelName = model IN SelectSeq(ns, Test)

\* [card_id for note in notes for card_id in note["cards"]]
CardIds(ns) == Concat([ i \in DOMAIN ns |-> ns[i].cards ])

\* card.get("fields", {}).get(field, {}).get("value")
FieldValue(card, field) ==
    IF field \in DOMAIN card.fields THEN card.fields[field] ELSE "None"

\* the interval compared with >= instead of >
EligibleAtThreshold(card, ord, threshold, field, value) ==
    /\ card.ord = ord
    /\ card.interval >= threshold
    /\ FieldValue(card, field) # value

\* the test of the field's current value left out
EligibleIgnoringField(card, ord, threshold, field, value) ==
    /\ card.ord = ord
    /\ card.interval > threshold

\* the condition under which the loop appends card_id
Eligible(card, ord, threshold, field, value) ==
    /\ card.ord = ord
    /\ card.interval > threshold
    /\ FieldValue(card, field) # value

\* eligible_card_ids after the loop over card_info_dict (card ids are
\* unique, so the dict holds card_infos in order)
EligibleCardIds(infos, ord, threshold, field, value) ==
    LET Test(c) == Eligible(c, ord, threshold, field, value)
        kept == SelectSeq(infos, Test)
    IN  [ i \in DOMAIN kept |-> kept[i].cardId ]

\* every note selected as soon as any card is eligible
NotesToUpdateAll(ns, eligible) ==
    IF eligible = << >> THEN << >> ELSE ns

\* [note for note in notes if any(card_id in eligible for card_id in cards)]
NotesToUpdate(ns, eligible) ==
    LET Test(n) == \E i \in DOMAIN n.cards : n.cards[i] \in Range(eligible)
    IN  SelectSeq(ns, Test)

\* the ids in reverse order
NoteIdsToUpdateReversed(ns) ==
    [ i \in 1 .. Len(ns) |-> ns[Len(ns) + 1 - i].noteId ]

\* [note["noteId"] for note in notes_to_update]
NoteIdsToUpdate(ns) == [ i \in DOMAIN ns |-> ns[i].noteId ]

\* a handler for RuntimeError only
HandlerOfRuntimeError(exc) ==
    IF exc \in { "RuntimeError" } THEN "error" ELSE "propagated"

\* "except Exception": what the run's outcome is for a raised exception
TopLevelHandler(exc) ==
    IF exc \in { "RuntimeError", "ConnectionError", "ValueError" }
    THEN "error" ELSE "propagated"

-----------------------------------------------------------------------------
(* The states a remote store can be in, within the bounds *)

\* template orderings of the configured model: the qualifying template
\* first, second, or absent
Layouts(c) ==
    { << c.template, "Extra" >>, << "Extra", c.template >>, << "Extra" >> }

\* intervals at and just above the script's threshold
Intervals(c) == { c.threshold, c.threshold + 1 }

\* a note's fields: the target field "Yes", "No", or not a field of the note
FieldStates(c) ==
    { ("Front" :> "text"),
      ("Front" :> "text") @@ (c.field :> "No"),
      ("Front" :> "text") @@ (c.field :> c.value) }

\* The notes the pipeline never looks into (outside the deck, or of
\* another model) are given what would make them selected if it did: the
\* target field "No" and every card above the threshold.
Unset(c) == ("Front" :> "text") @@ (c.field :> "No")

AllAbove(c, k) == [ i \in 1 .. k |-> c.threshold + 1 ]

\* the intervals of a note's cards, one per template: the card of the
\* qualifying template at or above the threshold, the others above it (they
\* would be eligible if the ord were not tested)
CardIntervals(c, layout) ==
    { s \in [ 1 .. Len(layout) -> Intervals(c) ] :
        \A i \in 1 .. Len(layout) : layout[i] # c.template => s[i] = c.threshold + 1 }

\* notes of the configured model: one card per template of the model
ModelNotes(c, layout) ==
    [ modelName : { c.model }, deck : { c.deck },
      fields : FieldStates(c), ivl : CardIntervals(c, layout) ]
    \cup
    [ modelName : { c.model }, deck : { "Default" },
      fields : { Unset(c) }, ivl : { AllAbove(c, Len(layout)) } ]

\* notes of another model, with two templates
OtherNotes(c) ==
    [ modelName : { "Basic" }, deck : { c.deck, "Default" },
      fields : { Unset(c) }, ivl : { AllAbove(c, 2) } ]

-----------------------------------------------------------------------------
(* The run *)

\* one remote call of the run: what was asked and what came back
Call(action, arg, kind) == [ action |-> action, arg |-> arg, response |-> kind ]

\* the locals of a run before its first statement
FreshLocals ==
    /\ template_names = << >>
    /\ word_template_ord = -1
    /\ note_ids = << >>
    /\ notes = << >>
    /\ card_infos = << >>
    /\ eligible_card_ids = << >>
    /\ note_ids_to_update = << >>
    /\ done_updates = 0
    /\ calls = << >>
    /\ raised = "none"
    /\ outcome = "running"

Init ==
    /\ cfg \in Configs
    /\ modelKnown \in BOOLEAN
    /\ remoteTemplates \in (IF modelKnown THEN Layouts(cfg) ELSE { << >> })
    /\ remoteNotes \in [ NoteIds ->
           (IF modelKnown THEN ModelNotes(cfg, remoteTemplates) ELSE {})
              \cup OtherNotes(cfg) ]
    /\ run = 1
    /\ pc = "modelTemplates"
    /\ FreshLocals
    /\ storeAtStart = remoteNotes
    /\ prevOutcome = "none"

\* the run ends: by a return (exc = "none") or in the top-level handler
Finish(exc, out) ==
    /\ pc' = "done"
    /\ raised' = exc
    /\ outcome' = IF exc = "none" THEN out ELSE TopLevelHandler(exc)

\* get_model_templates(model), the template guard and the ord
GetModelTemplates ==
    /\ pc = "modelTemplates"
    /\ \E kind \in Responses("modelTemplates") :
         LET exc == Invoke(kind)
             names == RemoteModelTemplates
         IN  /\ calls' = Append(calls, Call("modelTemplates", cfg.model, kind))
             /\ IF exc # "none"
                THEN /\ Finish(exc, "error")
                     /\ UNCHANGED << template_names, word_template_ord >>
                ELSE /\ template_names' = names
                     /\ IF ~HasTemplate(names, cfg.template)
                        THEN /\ Finish("none", "warning")
                             /\ UNCHANGED word_template_ord
                        ELSE IF IndexOf(names, cfg.template) < 0
                        THEN /\ Finish("ValueError", "error")
                             /\ UNCHANGED word_template_ord
                        ELSE /\ word_template_ord' = IndexOf(names, cfg.template)
                             /\ pc' = "findNotes"
                             /\ UNCHANGED << raised, outcome >>
    /\ UNCHANGED << cfg, modelKnown, remoteTemplates, remoteNotes, run,
                    note_ids, notes, card_infos, eligible_card_ids,
                    note_ids_to_update, done_updates, storeAtStart,
                    prevOutcome >>

\* find_notes(deck) and the empty-deck guard
FindNotes ==
    /\ pc = "findNotes"
    /\ \E kind \in Responses("findNotes") :
         LET exc == Invoke(kind)
             params == FindNotesParams(cfg.deck)
             ids == RemoteFindNotes(remoteNotes, params)
         IN  /\ calls' = Append(calls, Call("findNotes", params.query.deck, kind))
             /\ IF exc # "none"
                THEN /\ Finish(exc, "error")
                     /\ UNCHANGED note_ids
                ELSE /\ note_ids' = ids
                     /\ IF NoNoteIds(ids)
                        THEN Finish("none", "warning")
                        ELSE /\ pc' = "notesInfo"
                             /\ UNCHANGED << raised, outcome >>
    /\ UNCHANGED << cfg, modelKnown, remoteTemplates, remoteNotes, run,
                    template_names, word_template_ord, notes, card_infos,
                    eligible_card_ids, note_ids_to_update, done_updates,
                    storeAtStart, prevOutcome >>

\* get_note_info(note_ids), the model filter and its guard
GetNoteInfo ==
    /\ pc = "notesInfo"
    /\ \E kind \in Responses("notesInfo") :
         LET exc == Invoke(kind)
             params == NotesInfoParams(note_ids)
             infos == RemoteNotesInfo(remoteNotes, params)
             kept == FilterByModel(infos, cfg.model)
         IN  /\ calls' = Append(calls, Call("notesInfo", params.notes, kind))
             /\ IF exc # "none"
                THEN /\ Finish(exc, "error")
                     /\ UNCHANGED notes
                ELSE /\ notes' = kept
                     /\ IF NoNotes(kept)
                        THEN Finish("none", "warning")
                        ELSE /\ pc' = "cardsInfo"
                             /\ UNCHANGED << raised, outcome >>
    /\ UNCHANGED << cfg, modelKnown, remoteTemplates, remoteNotes, run,
                    template_names, word_template_ord, note_ids, card_infos,
                    eligible_card_ids, note_ids_to_update, done_updates,
                    storeAtStart, prevOutcome >>

\* get_card_info(card_ids), the eligibility loop and the note selection
GetCardInfo ==
    /\ pc = "cardsInfo"
    /\ \E kind \in Responses("cardsInfo") :
         LET exc == Invoke(kind)
             params == CardsInfoParams(CardIds(notes))
             infos == RemoteCardsInfo(remoteNotes, params)
             eligible == EligibleCardIds(infos, word_template_ord,
                             cfg.threshold, cfg.field, cfg.value)
             ids == NoteIdsToUpdate(NotesToUpdate(notes, eligible))
         IN  /\ calls' = Append(calls, Call("cardsInfo", params.cards, kind))
             /\ IF exc # "none"
                THEN /\ Finish(exc, "error")
                     /\ UNCHANGED << card_infos, eligible_card_ids,
                                     note_ids_to_update >>
                ELSE /\ card_infos' = infos
                     /\ eligible_card_ids' = eligible
                     /\ note_ids_to_update' = ids
                     /\ IF NoNotesToUpdate(ids)
                        THEN Finish("none", "info")
                        ELSE /\ pc' = "update"
                             /\ UNCHANGED << raised, outcome >>
    /\ UNCHANGED << cfg, modelKnown, remoteTemplates, remoteNotes, run,
                    template_names, word_template_ord, note_ids, notes,
                    done_updates, storeAtStart, prevOutcome >>

\* one iteration of the loop of update_note_fields: the remote applies the
\* write when it answers with a result; the loop goes on when invoke returns.
\* (The list is never empty here: "if notes_to_update" guards the call.)
UpdateNote ==
    /\ pc = "update"
    /\ done_updates < Len(note_ids_to_update)
    /\ \E kind \in Responses("updateNoteFields") :
         LET exc == Invoke(kind)
             params == UpdateParams(note_ids_to_update[done_updates + 1],
                                    cfg.field, cfg.value)
         IN  /\ calls' = Append(calls, Call("updateNoteFields", params.note.id, kind))
             /\ remoteNotes' = IF kind = "ok"
                               THEN RemoteUpdateNoteFields(remoteNotes, params)
                               ELSE remoteNotes
             /\ IF exc # "none"
                THEN /\ Finish(exc, "error")
                     /\ UNCHANGED done_updates
                ELSE /\ done_updates' = done_updates + 1
                     /\ IF done_updates + 1 = Len(note_ids_to_update)
                        THEN Finish("none", "success")
                        ELSE UNCHANGED << pc, raised, outcome >>
    /\ UNCHANGED << cfg, modelKnown, remoteTemplates, run, template_names,
                    word_template_ord, note_ids, notes, card_infos,
                    eligible_card_ids, note_ids_to_update, storeAtStart,
                    prevOutcome >>

\* the script is started again, on the store as the last run left it
NextRun ==
    /\ pc = "done"
    /\ run < MaxRuns
    /\ run' = run + 1
    /\ pc' = "modelTemplates"
    /\ template_names' = << >>
    /\ word_template_ord' = -1
    /\ note_ids' = << >>
    /\ notes' = << >>
    /\ card_infos' = << >>
    /\ eligible_card_ids' = << >>
    /\ note_ids_to_update' = << >>
    /\ done_updates' = 0
    /\ calls' = << >>
    /\ raised' = "none"
    /\ outcome' = "running"
    /\ storeAtStart' = remoteNotes
    /\ prevOutcome' = outcome
    /\ UNCHANGED << cfg, modelKnown, remoteTemplates, remoteNotes >>

Next ==
    \/ GetModelTemplates
    \/ FindNotes
    \/ GetNoteInfo
    \/ GetCardInfo
    \/ UpdateNote
    \/ NextRun

Spec == Init /\ [][Next]_vars

\* a step of the run under way: its next remote call returns or fails
RunStep ==
    GetModelTemplates \/ FindNotes \/ GetNoteInfo \/ GetCardInfo \/ UpdateNote

\* every remote call eventually returns or fails (the calls are blocking
\* and sequential; nothing else schedules the run)
FairSpec == Spec /\ WF_vars(RunStep)

-----------------------------------------------------------------------------
(* What the properties speak of, read off the remote store and the call   *)
(* history rather than off the run's locals                                *)

\* the remote answered the run's call of this action with a result
Returned(action) ==
    \E i \in DOMAIN calls : calls[i].action = action /\ calls[i].response = "ok"

\* the calls of one action, in the order issued
CallsOf(action) == LET Test(c) == c.action = action IN SelectSeq(calls, Test)

\* a call that did not return a result
Failed(c) == c.response # "ok"

TemplateAbsent == modelKnown /\ cfg.template \notin Range(remoteTemplates)

\* position of the qualifying template in the model's template ordering
QualifyingOrd ==
    CHOOSE o \in 0 .. Len(remoteTemplates) - 1 : remoteTemplates[o + 1] = cfg.template

\* note n is returned by the deck query and is of the configured model
InScope(store, n) ==
    store[n].deck = cfg.deck /\ store[n].modelName = cfg.model

HasTargetField(store, n) == cfg.field \in DOMAIN store[n].fields

\* the three conditions of eligibility, for the card of note n at ord o
CardQualifies(store, n, o) ==
    /\ o = QualifyingOrd
    /\ store[n].ivl[o + 1] > cfg.threshold
    /\ (HasTargetField(store, n) => store[n].fields[cfg.field] # cfg.value)

NoteQualifies(store, n) ==
    /\ InScope(store, n)
    /\ \E o \in 0 .. Len(store[n].ivl) - 1 : CardQualifies(store, n, o)

\* the notes a run starting on store selects, in the order notesInfo gives
SelectedSeq(store) == SortedSeq({ n \in NoteIds : NoteQualifies(store, n) })

\* note n after the target field was written on it
Written(note) ==
    [ note EXCEPT !.fields = [ f \in DOMAIN @ |->
                                 IF f = cfg.field THEN cfg.value ELSE @[f] ] ]

-----------------------------------------------------------------------------
(* C1 *)

\* C1: in both updaters, a card returned by the card fetch is in the
\* eligible set iff its ord is the position of the qualifying template, its
\* interval is strictly greater than the threshold (14 resp. 45) and the
\* value of its target field is not the target value; a card without the
\* field counts as not equal.
C1_EligibleIff ==
    Returned("cardsInfo") =>
        /\ cfg.threshold = (IF cfg.field = "Audio Enabled" THEN 14 ELSE 45)
        /\ Range(eligible_card_ids) \subseteq { card_infos[i].cardId : i \in DOMAIN card_infos }
        /\ \A i \in DOMAIN card_infos :
              LET c == card_infos[i].cardId
              IN  c \in Range(eligible_card_ids)
                    <=> CardQualifies(storeAtStart, NoteOfCard(c), OrdOfCard(c))

\* a fetch that returned a card eligible for lack of the field, and a card
\* of the qualifying ord left out because its interval equals the threshold
C1_Witness ==
    /\ Returned("cardsInfo")
    /\ \E i \in DOMAIN card_infos :
          /\ card_infos[i].cardId \in Range(eligible_card_ids)
          /\ cfg.field \notin DOMAIN card_infos[i].fields
    /\ \E i \in DOMAIN card_infos :
          /\ card_infos[i].cardId \notin Range(eligible_card_ids)
          /\ card_infos[i].ord = QualifyingOrd
          /\ card_infos[i].interval = cfg.threshold
          /\ cfg.field \in DOMAIN card_infos[i].fields
          /\ card_infos[i].fields[cfg.field] = "No"

-----------------------------------------------------------------------------
(* C2 *)

\* C2: a note that survives the deck query and the model filter is handed
\* to update_note_fields iff at least one of its cards is eligible; a note
\* with no eligible card is never selected, nor written.
C2_SelectedIff ==
    /\ Returned("cardsInfo") =>
          \A n \in NoteIds :
              InScope(storeAtStart, n) =>
                 (n \in Range(note_ids_to_update) <=> NoteQualifies(storeAtStart, n))
    /\ \A i \in DOMAIN calls :
          calls[i].action = "updateNoteFields" => NoteQualifies(storeAtStart, calls[i].arg)

\* two surviving notes, one with an eligible card and selected, the other
\* without and not selected, and the update issued
C2_Witness ==
    /\ outcome = "success"
    /\ \E n, m \in NoteIds :
          /\ InScope(storeAtStart, n) /\ InScope(storeAtStart, m)
          /\ note_ids_to_update = << n >>
          /\ ~NoteQualifies(storeAtStart, m)

-----------------------------------------------------------------------------
(* C3 *)

\* the previous run ended by a return: none of its remote calls failed
PrevRunClean == prevOutcome \in { "warning", "info", "success" }

-----------------------------------------------------------------------------
(* C4 *)

\* C4: when the qualifying template name is absent from the template set
\* the remote returned, the run issues no remote call after the template
\* fetch, so no updateNoteFields call, and returns with a warning, whatever
\* the deck holds.
C4_MissingTemplateGuard ==
    (TemplateAbsent /\ Returned("modelTemplates")) =>
        /\ Len(calls) = 1
        /\ pc = "done"
        /\ outcome = "warning"
        /\ raised = "none"
        /\ remoteNotes = storeAtStart

\* the guard taken on a deck that holds a note of the model, above the
\* threshold and not yet set
C4_Witness ==
    /\ TemplateAbsent
    /\ Returned("modelTemplates")
    /\ pc = "done"
    /\ \E n \in NoteIds :
          /\ InScope(remoteNotes, n)
          /\ HasTargetField(remoteNotes, n)
          /\ remoteNotes[n].fields[cfg.field] = "No"
          /\ \E i \in DOMAIN remoteNotes[n].ivl : remoteNotes[n].ivl[i] > cfg.threshold

-----------------------------------------------------------------------------
(* C5 *)

DeckEmpty == \A n \in NoteIds : storeAtStart[n].deck # cfg.deck

\* C5: when the deck query returns no note id, the run issues neither the
\* notesInfo nor the cardsInfo fetch nor any updateNoteFields call, and
\* returns as a no-op.
C5_EmptyDeckGuard ==
    (DeckEmpty /\ Returned("findNotes")) =>
        /\ note_ids = << >>
        /\ Len(calls) = 2
        /\ CallsOf("notesInfo") = << >>
        /\ CallsOf("cardsInfo") = << >>
        /\ CallsOf("updateNoteFields") = << >>
        /\ pc = "done"
        /\ outcome = "warning"
        /\ remoteNotes = storeAtStart

\* the guard taken, the store holding a note of the model in another deck
C5_Witness ==
    /\ DeckEmpty
    /\ Returned("findNotes")
    /\ pc = "done"
    /\ \E n \in NoteIds : remoteNotes[n].modelName = cfg.model

-----------------------------------------------------------------------------
(* C6 *)

\* C6: when the updateNoteFields call for the k-th selected note fails, it
\* is not retried, no update call follows it, and the first k-1 writes
\* stay: the calls are those for the first k selected notes, once each, in
\* order, and the notes written are exactly the first k-1.
C6_FailedUpdateLeavesPrefix ==
    LET upd == CallsOf("updateNoteFields")
        k == Len(upd)
        sel == SelectedSeq(storeAtStart)
    IN  (k > 0 /\ Failed(upd[k])) =>
            /\ pc = "done"
            /\ outcome = "error"
            /\ calls[Len(calls)] = upd[k]
            /\ k <= Len(sel)
            /\ \A i \in 1 .. k : upd[i].arg = sel[i] /\ (Failed(upd[i]) <=> i = k)
            /\ \A n \in NoteIds :
                  remoteNotes[n] = IF \E i \in 1 .. k - 1 : sel[i] = n
                                   THEN Written(storeAtStart[n])
                                   ELSE storeAtStart[n]

\* the second of two update calls failed: the first note is written, the
\* second is not
C6_Witness ==
    LET upd == CallsOf("updateNoteFields")
    IN  /\ Len(upd) = 2
        /\ Failed(upd[2])
        /\ pc = "done"
        /\ remoteNotes[upd[1].arg] # storeAtStart[upd[1].arg]
        /\ remoteNotes[upd[2].arg] = storeAtStart[upd[2].arg]
        /\ HasTargetField(remoteNotes, upd[2].arg)
        /\ remoteNotes[upd[2].arg].fields[cfg.field] = "No"

-----------------------------------------------------------------------------
(* C7 *)

\* the remote answered the template fetch with "model not found"
ModelReportedUnknown ==
    /\ ~modelKnown
    /\ calls # << >>
    /\ calls[1].action = "modelTemplates"
    /\ calls[1].response = "apperror"

\* no note of the configured model came back from the deck
NoNoteOfModel ==
    /\ Returned("notesInfo")
    /\ \A n \in NoteIds : ~InScope(storeAtStart, n)

\* C7 as stated: a template or a model that is not found ends the run
\* through the warn-and-return path, never through the top-level handler;
\* in particular when the remote reports the model as unknown.
C7_MismatchIsWarning ==
    ((TemplateAbsent /\ Returned("modelTemplates")) \/ ModelReportedUnknown) =>
        /\ pc = "done"
        /\ outcome = "warning"
        /\ raised = "none"
        /\ CallsOf("updateNoteFields") = << >>

\* C7 as amended: a template absent from the returned template set, and a
\* deck without a note of the named model, end the run through the
\* warn-and-return path with no update call; a model the remote reports
\* as unknown makes invoke raise RuntimeError, and the run ends in the
\* top-level handler (logged error), after that one call and with no
\* update call.
C7_MismatchOutcomes ==
    /\ ((TemplateAbsent /\ Returned("modelTemplates")) \/ NoNoteOfModel) =>
          /\ pc = "done"
          /\ outcome = "warning"
          /\ raised = "none"
          /\ CallsOf("updateNoteFields") = << >>
    /\ ModelReportedUnknown =>
          /\ pc = "done"
          /\ outcome = "error"
          /\ raised = "RuntimeError"
          /\ Len(calls) = 1
          /\ remoteNotes = storeAtStart

\* the remote has reported the model as unknown and the run is over
C7_Witness ==
    /\ ModelReportedUnknown
    /\ pc = "done"
    /\ run = 1

-----------------------------------------------------------------------------
(* C8 *)

\* C8: every run terminates normally.  A remote call that fails is the
\* last call of its run, ends the run in the top-level handler (outcome
\* "error") and nothing propagates to the caller; and, every call
\* returning or failing, a run that is under way reaches its completed
\* state.
C8_RunTerminates ==
    /\ [](/\ outcome # "propagated"
          /\ \A i \in DOMAIN calls :
                Failed(calls[i]) =>
                   /\ i = Len(calls)
                   /\ pc = "done"
                   /\ outcome = "error"
                   /\ raised \in { "ConnectionError", "RuntimeError" })
    /\ (pc # "done") ~> (pc = "done")

\* a run ended by a connection failure of the card fetch, after three
\* calls that returned
C8_Witness ==
    /\ pc = "done"
    /\ raised = "ConnectionError"
    /\ outcome = "error"
    /\ Len(calls) = 4
    /\ calls[4].action = "cardsInfo"
    /\ calls[4].response = "unreachable"

-----------------------------------------------------------------------------
(* C9 *)

\* C9: in a run where every call succeeds and a note is selected, the calls
\* are, in this order and completed one after the other: modelTemplates,
\* findNotes, notesInfo, one cardsInfo over all card ids of the surviving
\* notes, then one updateNoteFields per selected note in the order
\* notesInfo returned them; so every read precedes the first write.
C9_CallSequence ==
    LET sel == SelectedSeq(storeAtStart)
        inScope == SortedSeq({ n \in NoteIds : InScope(storeAtStart, n) })
    IN  outcome = "success" =>
            /\ sel # << >>
            /\ Len(calls) = 4 + Len(sel)
            /\ \A i \in DOMAIN calls : calls[i].response = "ok"
            /\ calls[1].action = "modelTemplates" /\ calls[1].arg = cfg.model
            /\ calls[2].action = "findNotes" /\ calls[2].arg = cfg.deck
            /\ calls[3].action = "notesInfo"
            /\ calls[3].arg = SortedSeq({ n \in NoteIds : storeAtStart[n].deck = cfg.deck })
            /\ calls[4].action = "cardsInfo"
            /\ calls[4].arg = Concat([ i \in DOMAIN inScope |-> CardsOf(storeAtStart, inScope[i]) ])
            /\ \A i \in DOMAIN sel :
                  /\ calls[4 + i].action = "updateNoteFields"
                  /\ calls[4 + i].arg = sel[i]

\* a successful run that wrote two notes
C9_Witness ==
    /\ outcome = "success"
    /\ Len(CallsOf("updateNoteFields")) = 2
    /\ pc = "done"

-----------------------------------------------------------------------------
(* C10 *)

\* C10: the only change a run makes to the store is the target field set
\* to the target value on selected notes, which are notes the deck query
\* returned and of the configured model.  Notes of another model, notes
\* outside the deck, notes not selected and all other fields are as they
\* were when the run started; with no note of the model in the deck there
\* is no update call.
C10_Frame ==
    /\ \A n \in NoteIds :
          \/ remoteNotes[n] = storeAtStart[n]
          \/ /\ InScope(storeAtStart, n)
             /\ NoteQualifies(storeAtStart, n)
             /\ remoteNotes[n] = Written(storeAtStart[n])
    /\ \A i \in DOMAIN calls :
          calls[i].action = "updateNoteFields" => InScope(storeAtStart, calls[i].arg)
    /\ (\A n \in NoteIds : ~InScope(storeAtStart, n)) => CallsOf("updateNoteFields") = << >>

\* a finished run that wrote a note and left alone a note of another model
\* in the same deck whose cards are above the threshold and whose field is
\* "No"
C10_Witness ==
    /\ pc = "done"
    /\ \E n, m \in NoteIds :
          /\ remoteNotes[n] # storeAtStart[n]
          /\ remoteNotes[m].deck = cfg.deck
          /\ remoteNotes[m].modelName # cfg.model
          /\ HasTargetField(remoteNotes, m)
          /\ remoteNotes[m].fields[cfg.field] = "No"

=============================================================================
